---- MODULE Spec2Model ----
(***************************************************************************)
(* A model of the trust-and-resource-path layer of total5:                 *)
(*   - DEF::on_error       (src/src/lib.rs)   the bounded error ring       *)
(*   - DEF::on_csrf_create / DEF::on_csrf_check (src/src/lib.rs)           *)
(*   - TPath               (src/src/utils.rs) the path resolver            *)
(* Strings that the code slices by index (paths) are sequences of          *)
(* one-character strings; all other strings are TLA+ strings.              *)
(***************************************************************************)
EXTENDS Integers, Sequences, FiniteSets, TLC

VARIABLES
    errors,          \* f.errors: Vec<ErrorInfo>
    stats_error,     \* f.stats.error
    epc,             \* position of the running on_error call
    ecur,            \* the ErrorInfo the running on_error call has built
    reported,        \* history: every ErrorInfo handed to a completed push
    now,             \* Utc::now().timestamp_millis()
    secret_csrf,     \* config.secret_csrf
    csrfexpiration,  \* config._csrfexpiration
    issued,          \* the last on_csrf_create call: its request, time, result
    checked,         \* the last on_csrf_check call: its request, time, result
    base_dir,        \* TPath.base_dir
    temporary_dirs,  \* TPath.temporary_dirs
    routed,          \* the last route call: its arguments and its result
    fs,              \* the filesystem: what each path names, and a file's bytes
    perf_open,       \* f.stats.performance.open
    called,          \* the last filesystem or on_audit call: arguments, result
    threads          \* the concurrent callers: job, position and locals of each

vars == <<errors, stats_error, epc, ecur, reported, now, secret_csrf,
          csrfexpiration, issued, checked, base_dir, temporary_dirs, routed,
          fs, perf_open, called, threads>>

errVars == <<errors, stats_error, epc, ecur, reported>>
csrfVars == <<now, secret_csrf, csrfexpiration, issued, checked>>
pathVars == <<base_dir, temporary_dirs, routed>>
ioVars == <<fs, perf_open, called, threads>>

\* Option<T>: None is the empty tuple, Some(x) the one-element tuple
None == <<>>
Some(x) == <<x>>
Unwrap(o) == o[1]

(***************************************************************************)
(* Bounds of the model.                                                    *)
(***************************************************************************)
MaxReports == 12     \* on_error calls in one behaviour
MaxTime == 4         \* the clock runs over 1..MaxTime
MaxPathLen == 3      \* length of the free-form paths handed to route
MaxAudits == 2       \* on_audit calls in one behaviour
NumThreads == 2      \* concurrent callers of on_error and on_audit

(***************************************************************************)
(* ErrorRing: DEF::on_error, src/src/lib.rs 388-435.                       *)
(***************************************************************************)
\* errors.len() > 10: the ring's capacity
RingCap == 10

\* The (err.to_string(), name, url) arguments on_error is called with.
ErrorArgs ==
    { [error |-> "e1", name |-> None,     url |-> None],
      [error |-> "e2", name |-> Some(""), url |-> Some("/u")] }

\* lib.rs 391-396: name.unwrap_or("unknown")
ErrorName(name) == IF name # None THEN Unwrap(name) ELSE "unknown"

\* lib.rs 418-423: the ErrorInfo record (without its date)
MakeErrorInfo(a) ==
    [error |-> a.error,
     name  |-> IF ErrorName(a.name) = "" THEN None ELSE Some(ErrorName(a.name)),
     url   |-> a.url]

\* lib.rs 425: errors.push(error_info)
Push(ring, info) == Append(ring, info)

\* lib.rs 426: if errors.len() > 10
OverflowMutantLate(ring) == Len(ring) > RingCap + 1
Overflow(ring) == Len(ring) > RingCap

\* lib.rs 427: errors.remove(0)
RemoveFirstMutantLast(ring) == SubSeq(ring, 1, Len(ring) - 1)
RemoveFirst(ring) == Tail(ring)

\* lib.rs 388-425: format and print the line, build the record, push it
ReportPush(a) ==
    /\ epc = "idle"
    /\ Len(reported) < MaxReports
    /\ ecur' = Some(MakeErrorInfo(a))
    /\ errors' = Push(errors, MakeErrorInfo(a))
    /\ reported' = Append(reported, MakeErrorInfo(a))
    /\ epc' = "pushed"
    /\ UNCHANGED <<stats_error, csrfVars, pathVars, ioVars>>

\* lib.rs 426-428: evict the oldest record when the ring overflowed
ReportEvict ==
    /\ epc = "pushed"
    /\ errors' = IF Overflow(errors) THEN RemoveFirst(errors) ELSE errors
    /\ epc' = "evicted"
    /\ UNCHANGED <<stats_error, ecur, reported, csrfVars, pathVars, ioVars>>

\* lib.rs 434: f.stats.error += 1
ReportCount ==
    /\ epc = "evicted"
    /\ stats_error' = stats_error + 1
    /\ epc' = "idle"
    /\ ecur' = None
    /\ UNCHANGED <<errors, reported, csrfVars, pathVars, ioVars>>

InitError ==
    /\ errors = <<>>
    /\ stats_error = 0
    /\ epc = "idle"
    /\ ecur = None
    /\ reported = <<>>

(***************************************************************************)
(* TokenService: DEF::on_csrf_create and DEF::on_csrf_check,               *)
(* src/src/lib.rs 250-298.                                                 *)
(***************************************************************************)
\* The values config.secret_csrf, ctrl.ip and the user-agent header take.
Secrets == {"k1", "k2"}
IPs == {"1.1.1.1", "2.2.2.2"}
UserAgents == {"ua1", "ua2"}

\* The values config._csrfexpiration (milliseconds) takes.
Ttls == {1, 2}

\* A JSON value inside an array: a string or a number.
JStr(s) == [t |-> "string", s |-> s, n |-> 0]
JNum(n) == [t |-> "number", s |-> "", n |-> n]

\* A JSON text: an array of values, or a text that is not JSON.
JArray(items) == [json |-> "array", items |-> items]
NotJson == [json |-> "invalid", items |-> <<>>]

Digits == <<"0", "1", "2", "3", "4", "5", "6", "7", "8", "9">>

\* i64 to decimal text, as serde_json and to_string() write it
RECURSIVE NatToStr(_)
NatToStr(n) == IF n < 10 THEN Digits[n + 1]
               ELSE NatToStr(n \div 10) \o Digits[(n % 10) + 1]
IntToStr(n) == IF n < 0 THEN "-" \o NatToStr(-n) ELSE NatToStr(n)

\* The integers whose decimal text the model's strings can hold.
ParseRange == (-1)..(MaxTime + 3)

\* lib.rs 288: data[2].parse::<i64>() : Some(n) for a decimal text, else None
ParseI64(s) ==
    IF \E n \in ParseRange : IntToStr(n) = s
    THEN Some(CHOOSE n \in ParseRange : IntToStr(n) = s)
    ELSE None

\* lib.rs 288: .unwrap_or(0)
UnwrapOr(o, d) == IF o # None THEN Unwrap(o) ELSE d

\* lib.rs 264: serde_json::to_string(&data): strings are written as JSON
\* strings, the i64 expiry as a JSON number.
ToJsonString(data) == JArray(data)

\* lib.rs 282: serde_json::from_str::<Vec<String>>: Ok only for an array
\* whose every element is a JSON string.
FromJsonVecString(text) ==
    IF text.json = "array" /\ \A i \in 1..Len(text.items) : text.items[i].t = "string"
    THEN Some([i \in 1..Len(text.items) |-> text.items[i].s])
    ELSE None

\* The characters of a JSON text.
RECURSIVE JsonItemsText(_)
JsonItemsText(items) ==
    IF items = <<>> THEN ""
    ELSE (IF Head(items).t = "string" THEN "\"" \o Head(items).s \o "\""
          ELSE IntToStr(Head(items).n))
         \o (IF Len(items) > 1 THEN "," ELSE "")
         \o JsonItemsText(Tail(items))
JsonText(text) ==
    IF text.json = "array" THEN "[" \o JsonItemsText(text.items) \o "]"
    ELSE "not a json text"

\* A token: the ciphertext of a plaintext under a key (intact or with a byte
\* altered), or any other string.
RawToken(str) == [kind |-> "raw", text |-> str, key |-> "", plain |-> NotJson, intact |-> FALSE]

\* String::new()
EmptyString == RawToken("")

\* encrypt(plaintext, secret)
encrypt(plain, secret) ==
    [kind |-> "cipher", text |-> "", key |-> secret, plain |-> plain, intact |-> TRUE]

\* An issued token with one byte altered.
Tamper(token) == [token EXCEPT !.intact = FALSE]

\* decrypt(token, secret): Some(plaintext) for an intact ciphertext under
\* the same secret, None otherwise
decrypt(token, secret) ==
    IF token.kind = "cipher" /\ token.key = secret /\ token.intact
    THEN Some(token.plain)
    ELSE None

\* token.len(): a ciphertext is as long as its plaintext
TokenLen(token) ==
    IF token.kind = "raw" THEN Len(token.text) ELSE Len(JsonText(token.plain))

\* hash_user_agent(user_agent)
hash_user_agent(ua) ==
    CASE ua = "" -> "h0"
      [] ua = "ua1" -> "h1"
      [] OTHER -> "h2"

\* lib.rs 259, 284: ctrl.headers.get("user-agent").unwrap_or(&String::new())
UserAgentOf(ctrl) == IF ctrl.ua # None THEN Unwrap(ctrl.ua) ELSE ""

\* lib.rs 280: token.len() > 10
MinTokenLen == 10

\* What a call hands back: a value, or a panic that unwinds the caller.
Ret(v) == [panicked |-> FALSE, value |-> v]
Panic == [panicked |-> TRUE, value |-> FALSE]
Returned(p) == [panicked |-> FALSE, path |-> p]
Panicked == [panicked |-> TRUE, path |-> <<>>]

\* lib.rs 250-271: DEF::on_csrf_create at time t
on_csrf_create_MutantNoSecretCheck(ctrl, t) ==
    IF csrfexpiration # None
    THEN LET data == << JStr(ctrl.ip),
                        JStr(hash_user_agent(UserAgentOf(ctrl))),
                        JNum(t + Unwrap(csrfexpiration)) >>
         IN  encrypt(ToJsonString(data), UnwrapOr(secret_csrf, ""))
    ELSE EmptyString
on_csrf_create(ctrl, t) ==
    IF csrfexpiration # None
    THEN LET expiration == t + Unwrap(csrfexpiration)
             data == << JStr(ctrl.ip),
                        JStr(hash_user_agent(UserAgentOf(ctrl))),
                        JNum(expiration) >>
         IN  IF secret_csrf # None
             THEN encrypt(ToJsonString(data), Unwrap(secret_csrf))
             ELSE EmptyString
    ELSE EmptyString

\* lib.rs 277: ctrl.headers.get("x-csrf-token").or_else(|| ctrl.query.get("csrf"))
TokenOfMutantQueryFirst(ctrl) == IF ctrl.query # None THEN ctrl.query ELSE ctrl.header
TokenOf(ctrl) == IF ctrl.header # None THEN ctrl.header ELSE ctrl.query

\* lib.rs 286-289: the arity test and the three comparisons, in the code's order
CheckDataMutantNoArity(data, ctrl, t) ==
    IF Len(data) < 3 THEN Panic
    ELSE Ret(/\ data[1] = ctrl.ip
             /\ UnwrapOr(ParseI64(data[3]), 0) >= t
             /\ data[2] = hash_user_agent(UserAgentOf(ctrl)))
CheckDataMutantStrict(data, ctrl, t) ==
    Ret(/\ Len(data) >= 3
        /\ data[1] = ctrl.ip
        /\ UnwrapOr(ParseI64(data[3]), 0) > t
        /\ data[2] = hash_user_agent(UserAgentOf(ctrl)))
CheckData(data, ctrl, t) ==
    Ret(/\ Len(data) >= 3
        /\ data[1] = ctrl.ip
        /\ UnwrapOr(ParseI64(data[3]), 0) >= t
        /\ data[2] = hash_user_agent(UserAgentOf(ctrl)))

\* lib.rs 279-294: the checks made once a secret is configured
CheckWithSecret(ctrl, secret, t) ==
    LET token == TokenOf(ctrl) IN
    IF token # None /\ TokenLen(Unwrap(token)) > MinTokenLen
    THEN LET decrypted == decrypt(Unwrap(token), secret) IN
         IF decrypted # None
         THEN LET data == FromJsonVecString(Unwrap(decrypted)) IN
              IF data # None THEN CheckData(Unwrap(data), ctrl, t) ELSE Ret(FALSE)
         ELSE Ret(FALSE)
    ELSE Ret(FALSE)

\* lib.rs 273-298: DEF::on_csrf_check at time t
on_csrf_check_MutantAlwaysChecks(ctrl, t) == CheckWithSecret(ctrl, UnwrapOr(secret_csrf, "k1"), t)
on_csrf_check(ctrl, t) ==
    IF secret_csrf # None
    THEN CheckWithSecret(ctrl, Unwrap(secret_csrf), t)
    ELSE Ret(TRUE)

\* The plaintexts of the tokens a client can forge or replay.
ForgedPlains ==
    { JArray(<<JStr(ip), JStr(h), JStr(e)>>) :
          ip \in IPs, h \in {"h0", "h1"}, e \in {"2", "x"} }
    \cup { JArray(<<JStr("1.1.1.1"), JStr("h1")>>),
           JArray(<<JStr("1.1.1.1"), JStr("h1"), JStr("3"), JStr("extra")>>),
           JArray(<<JStr("1.1.1.1"), JStr("h1"), JNum(3)>>),
           JArray(<<JStr(""), JStr(""), JStr("")>>),
           NotJson }

\* The tokens a request can carry besides the issued one.
ForgedTokens ==
    { encrypt(p, "k1") : p \in ForgedPlains }
    \cup { encrypt(JArray(<<JStr("1.1.1.1"), JStr("h1"), JStr("3")>>), "k2"),
           Tamper(encrypt(JArray(<<JStr("1.1.1.1"), JStr("h1"), JStr("3")>>), "k1")),
           RawToken(""), RawToken("0123456789"), RawToken("0123456789a") }

\* The tokens a request can carry in its x-csrf-token header.
HeaderTokens ==
    ForgedTokens \cup
    (IF issued # None
     THEN {Unwrap(issued).token, Tamper(Unwrap(issued).token)}
     ELSE {})

\* The tokens a request can carry in its csrf query parameter.
QueryTokens ==
    { encrypt(JArray(<<JStr("1.1.1.1"), JStr("h1"), JStr("2")>>), "k1"),
      RawToken("0123456789") }
    \cup (IF issued # None THEN {Unwrap(issued).token} ELSE {})

Opt(S) == {None} \cup {Some(x) : x \in S}

\* The requests (ctrl) the framework hands to on_csrf_check.
Requests ==
    [ip : IPs, ua : Opt(UserAgents), header : Opt(HeaderTokens), query : Opt(QueryTokens)]

\* The requests the framework hands to on_csrf_create (no token yet).
CreateRequests ==
    [ip : IPs, ua : Opt(UserAgents), header : {None}, query : {None}]

\* The clock advances.
Tick ==
    /\ checked = None
    /\ now < MaxTime
    /\ now' = now + 1
    /\ UNCHANGED <<secret_csrf, csrfexpiration, issued, checked, errVars, pathVars, ioVars>>

\* A call of DEF::on_csrf_create; the caller keeps the token it got.
OnCsrfCreate(ctrl) ==
    /\ checked = None
    /\ issued' = Some([ctrl |-> ctrl, at |-> now, token |-> on_csrf_create(ctrl, now)])
    /\ UNCHANGED <<now, secret_csrf, csrfexpiration, checked, errVars, pathVars, ioVars>>

\* A call of DEF::on_csrf_check; the caller holds its answer.
OnCsrfCheck(ctrl) ==
    /\ checked = None
    /\ checked' = Some([ctrl |-> ctrl, at |-> now, ret |-> on_csrf_check(ctrl, now)])
    /\ UNCHANGED <<now, secret_csrf, csrfexpiration, issued, errVars, pathVars, ioVars>>

\* The caller is done with the answer of on_csrf_check.
CheckDone ==
    /\ checked # None
    /\ checked' = None
    /\ UNCHANGED <<now, secret_csrf, csrfexpiration, issued, errVars, pathVars, ioVars>>

\* The clock reads a time after the epoch: timestamp_millis() is positive.
InitCsrf ==
    /\ now = 1
    /\ secret_csrf \in {None, Some("k1")}
    /\ csrfexpiration \in Opt(Ttls)
    /\ issued = None
    /\ checked = None

(***************************************************************************)
(* PathResolver: TPath, src/src/utils.rs.  A path or a directory name is   *)
(* the sequence of its characters.                                         *)
(***************************************************************************)
N_root == <<"r", "o", "o", "t">>
N_logs == <<"l", "o", "g", "s">>
N_scripts == <<"s", "c", "r", "i", "p", "t", "s">>
N_public == <<"p", "u", "b", "l", "i", "c">>
N_private == <<"p", "r", "i", "v", "a", "t", "e">>
N_databases == <<"d", "a", "t", "a", "b", "a", "s", "e", "s">>
N_plugins == <<"p", "l", "u", "g", "i", "n", "s">>
N_templates == <<"t", "e", "m", "p", "l", "a", "t", "e", "s">>
N_flowstreams == <<"f", "l", "o", "w", "s", "t", "r", "e", "a", "m", "s">>
N_modules == <<"m", "o", "d", "u", "l", "e", "s">>
N_tmp == <<"t", "m", "p">>

\* utils.rs 16-25: the names TPath::new registers
RegisteredNames ==
    { N_logs, N_scripts, N_public, N_private, N_databases, N_plugins,
      N_templates, N_flowstreams, N_modules, N_tmp }

\* lib.rs 447: PATH = TPath::new(PathBuf::from("src"))
BaseDirectory == <<"s", "r", "c">>

\* Path::is_absolute on this platform: the path starts with '/'
IsAbsolute(p) == p # <<>> /\ p[1] = "/"

\* PathBuf::join (utils.rs 36, 44, 116, 146): an absolute argument replaces
\* the directory; otherwise a separator is added unless the directory is
\* empty or already ends with one
Join(dir, p) ==
    IF IsAbsolute(p) THEN p
    ELSE IF dir # <<>> /\ dir[Len(dir)] # "/" THEN dir \o <<"/">> \o p
    ELSE dir \o p

\* utils.rs 13-31: TPath::new(base_dir).temporary_dirs
NewTemporaryDirs(base) == [n \in RegisteredNames |-> Join(base, n)]

\* match path { Some(p) => dir.join(p), None => dir.clone() }
JoinOpt(dir, path) == IF path # None THEN Join(dir, Unwrap(path)) ELSE dir

\* utils.rs 34-39
root(path) == JoinOpt(base_dir, path)
\* utils.rs 41-47
logs(path) == JoinOpt(temporary_dirs[N_logs], path)
\* utils.rs 49-55
scripts(path) == JoinOpt(temporary_dirs[N_scripts], path)
\* utils.rs 57-63
public(path) == JoinOpt(temporary_dirs[N_public], path)
\* utils.rs 65-71
private(path) == JoinOpt(temporary_dirs[N_private], path)
\* utils.rs 73-79
databases(path) == JoinOpt(temporary_dirs[N_databases], path)
\* utils.rs 81-87
plugins(path) == JoinOpt(temporary_dirs[N_plugins], path)
\* utils.rs 89-95
templates(path) == JoinOpt(temporary_dirs[N_templates], path)
\* utils.rs 97-103
flowstreams(path) == JoinOpt(temporary_dirs[N_flowstreams], path)
\* utils.rs 105-111
modules(path) == JoinOpt(temporary_dirs[N_modules], path)
\* utils.rs 124-130
tmp(path) == JoinOpt(temporary_dirs[N_tmp], path)

\* utils.rs 113-122: TPath::directory
directoryMutantJoins(dir_type, path) ==
    IF dir_type \in DOMAIN temporary_dirs
    THEN JoinOpt(temporary_dirs[dir_type], path)
    ELSE JoinOpt(base_dir, path)
directory(dir_type, path) ==
    IF dir_type \in DOMAIN temporary_dirs
    THEN JoinOpt(temporary_dirs[dir_type], path)
    ELSE base_dir

\* str::find('/'): the 0-based index of the first '/', or None
Find(str, c) ==
    IF \E i \in 1..Len(str) : str[i] = c
    THEN Some((CHOOSE i \in 1..Len(str) : str[i] = c /\ \A j \in 1..(i - 1) : str[j] # c) - 1)
    ELSE None

\* &s[from..] with a 0-based start
SliceFrom(str, from) == SubSeq(str, from + 1, Len(str))
\* &s[..to] with a 0-based exclusive end
SliceTo(str, to) == SubSeq(str, 1, to)

\* str::starts_with(char)
StartsWith(str, c) == str # <<>> /\ str[1] = c

\* utils.rs 162: the characters skipped after the index of the '/'
PluginSkip == 2

\* utils.rs 157-165: the plugin rule; None when it does not apply
PluginRoute(path, dir) ==
    IF StartsWith(path, "_")
    THEN LET tmp_ == SliceFrom(path, 1)
             index == Find(tmp_, "/")
         IN  IF index # None
             THEN LET plugin_name == SliceTo(tmp_, Unwrap(index))
                      dir_part == IF dir = N_root THEN <<>> ELSE dir
                  IN  IF Unwrap(index) + PluginSkip > Len(tmp_)
                      THEN Some(Panicked)
                      ELSE Some(Returned(plugins(Some(
                               plugin_name \o <<"/">> \o dir_part \o <<"/">>
                               \o SliceFrom(tmp_, Unwrap(index) + PluginSkip)))))
             ELSE None
    ELSE None

\* utils.rs 168-181: dispatch on the directory name
Dispatch(path, dir) ==
    CASE dir = N_root -> root(Some(path))
      [] dir = N_logs -> logs(Some(path))
      [] dir = N_scripts -> scripts(Some(path))
      [] dir = N_public -> public(Some(path))
      [] dir = N_private -> private(Some(path))
      [] dir = N_databases -> databases(Some(path))
      [] dir = N_plugins -> plugins(Some(path))
      [] dir = N_templates -> templates(Some(path))
      [] dir = N_flowstreams -> flowstreams(Some(path))
      [] dir = N_modules -> modules(Some(path))
      [] dir = N_tmp -> tmp(Some(path))
      [] OTHER -> directory(dir, Some(path))

\* utils.rs 150-182: TPath::route
routeMutantTildeDispatched(path, dir) ==
    IF StartsWith(path, "~") THEN Returned(Dispatch(SliceFrom(path, 1), dir))
    ELSE IF PluginRoute(path, dir) # None THEN Unwrap(PluginRoute(path, dir))
    ELSE Returned(Dispatch(path, dir))
route(path, dir) ==
    IF StartsWith(path, "~") THEN Returned(SliceFrom(path, 1))
    ELSE IF PluginRoute(path, dir) # None THEN Unwrap(PluginRoute(path, dir))
    ELSE Returned(Dispatch(path, dir))

\* The characters of the free-form paths.
Alphabet == {"~", "_", "/", "a", "."}

\* Every string over Alphabet of at most n characters.
RECURSIVE StringsUpTo(_)
StringsUpTo(n) ==
    IF n = 0 THEN {<<>>}
    ELSE StringsUpTo(n - 1)
         \cup { Append(w, c) : w \in { v \in StringsUpTo(n - 1) : Len(v) = n - 1 }, c \in Alphabet }

N_unregistered == <<"x">>

\* The directory names route is called with.
DirectoryNames == RegisteredNames \cup {N_root, N_unregistered, <<>>}

PluginNames == { <<"s", "h", "o", "p">>, <<"p">> }
Rests == { <<"s", "t", "y", "l", "e", ".", "c", "s", "s">>, <<"f">> }

\* The plugin-scoped paths "_<plugin>/<dir>/<rest>".
PluginPath(plugin, dir, rest) == <<"_">> \o plugin \o <<"/">> \o dir \o <<"/">> \o rest
PluginPaths == { PluginPath(pl, d, r) : pl \in PluginNames, d \in DirectoryNames, r \in Rests }

\* "~etc/passwd"
EtcPasswd == <<"~", "e", "t", "c", "/", "p", "a", "s", "s", "w", "d">>

\* The paths route is called with.
Paths == StringsUpTo(MaxPathLen) \cup PluginPaths \cup {EtcPasswd}

\* The base directories a TPath is constructed with.
BaseDirs == { BaseDirectory, <<"/", "w">> }

\* A call of TPath::route.
Route(path, dir) ==
    /\ routed = None
    /\ called = None
    /\ routed' = Some([path |-> path, dir |-> dir, ret |-> route(path, dir)])
    /\ UNCHANGED <<base_dir, temporary_dirs, errVars, csrfVars, ioVars>>

\* The caller is done with the path route returned.
RouteDone ==
    /\ routed # None
    /\ routed' = None
    /\ UNCHANGED <<base_dir, temporary_dirs, errVars, csrfVars, ioVars>>

\* utils.rs 13-31: TPath::new(base)
InitPath ==
    /\ base_dir \in BaseDirs
    /\ temporary_dirs = NewTemporaryDirs(base_dir)
    /\ routed = None

(***************************************************************************)
(* The filesystem under TPath and on_audit.  The paths of the model are    *)
(* the base directory, its logs directory and the audit log files; every   *)
(* other location (the working directory, "/") is a directory that exists. *)
(***************************************************************************)
\* lib.rs 303: name.unwrap_or("audit")
AuditDefault == <<"a", "u", "d", "i", "t">>
\* lib.rs 304: format!("{}.log", audit_name)
LogFileName(audit_name) == audit_name \o <<".", "l", "o", "g">>

\* The audit names given by callers: a plain one and an absolute one.
AuditNames == { <<"x">>, <<"/", "x">> }

LogsDirectory == Join(BaseDirectory, N_logs)
FsPaths ==
    {BaseDirectory, LogsDirectory}
    \cup { Join(LogsDirectory, LogFileName(n)) : n \in AuditNames \cup {AuditDefault} }

\* What a path names: nothing, a directory, or a file with its bytes.
Absent == [kind |-> "absent", data |-> <<>>]
Directory == [kind |-> "dir", data |-> <<>>]
File(data) == [kind |-> "file", data |-> data]

\* Path::parent: the path without its last component.
Parent(p) ==
    LET seps == { i \in 1..Len(p) : p[i] = "/" }
    IN  IF seps = {} THEN <<>>
        ELSE LET m == CHOOSE i \in seps : \A j \in seps : j <= i
             IN  IF m = 1 THEN <<"/">> ELSE SubSeq(p, 1, m - 1)

Kind(f, p) == IF p \in DOMAIN f THEN f[p].kind ELSE "dir"

\* p is d or lies below d.
IsUnder(p, d) ==
    \/ p = d
    \/ /\ Len(p) > Len(d)
       /\ SubSeq(p, 1, Len(d)) = d
       /\ p[Len(d) + 1] = "/"

\* A filesystem: whatever exists lies in a directory.
Consistent(f) == \A p \in DOMAIN f : f[p].kind # "absent" => Kind(f, Parent(p)) = "dir"

\* io::Result<()> of a filesystem call, with the filesystem it leaves.
Ok(f) == [ok |-> TRUE, fs |-> f]
Err(f) == [ok |-> FALSE, fs |-> f]

\* fs::remove_file (utils.rs 186): removes a file; a missing path is
\* NotFound, a directory an error too.
remove_file(f, p) ==
    IF Kind(f, p) = "file" THEN Ok([f EXCEPT ![p] = Absent]) ELSE Err(f)

\* fs::remove_dir_all (utils.rs 190): removes a directory and everything
\* below it; a missing path is NotFound, a file is not a directory.
remove_dir_all(f, p) ==
    IF Kind(f, p) = "dir"
    THEN Ok([q \in DOMAIN f |-> IF IsUnder(q, p) THEN Absent ELSE f[q]])
    ELSE Err(f)

\* fs::create_dir_all (utils.rs 201): creates the directory and its missing
\* ancestors; fails when the path or an ancestor is a file.
RECURSIVE create_dir_all(_, _)
create_dir_all(f, p) ==
    IF Kind(f, p) = "dir" THEN Ok(f)
    ELSE IF Kind(f, p) = "file" THEN Err(f)
    ELSE LET up == create_dir_all(f, Parent(p))
         IN  IF up.ok THEN Ok([up.fs EXCEPT ![p] = Directory]) ELSE Err(f)

\* utils.rs 185-187: TPath::unlink
unlink(f, path) == remove_file(f, path)
\* utils.rs 189-191: TPath::rmdir
rmdir(f, path) == remove_dir_all(f, path)

\* utils.rs 199-203: TPath::mkdir; the state it leaves: the filesystem and
\* the TPath's directory map
mkdirMutantCaches(f, path) ==
    [fs |-> IF Kind(f, path) # "absent" THEN f ELSE create_dir_all(f, path).fs,
     temporary_dirs |-> [temporary_dirs EXCEPT ![N_tmp] = path]]
mkdir(f, path) ==
    [fs |-> IF Kind(f, path) # "absent" THEN f ELSE create_dir_all(f, path).fs,
     temporary_dirs |-> temporary_dirs]
\* utils.rs 194-196: TPath::verify
verify(f, path) == mkdir(f, path)
\* utils.rs 144-147: TPath::join
join(f, directory_, path) ==
    [after |-> verify(f, directory_), ret |-> Join(directory_, path)]

\* The length fs::metadata reports for a directory, which the platform sets.
DirectoryLens == {0, 4096}
\* utils.rs 136-141: TPath::exists
exists(f, path, dir_len) ==
    CASE Kind(f, path) = "file" -> <<TRUE, Len(f[path].data), TRUE>>
      [] Kind(f, path) = "dir" -> <<TRUE, dir_len, FALSE>>
      [] OTHER -> <<FALSE, 0, FALSE>>

\* utils.rs 34-134: the resolver of a name; temp is an alias of tmp
N_temp == <<"t", "e", "m", "p">>
ResolverNames == RegisteredNames \cup {N_root, N_temp}
Resolver(name, path) ==
    CASE name = N_root -> root(path)
      [] name = N_logs -> logs(path)
      [] name = N_scripts -> scripts(path)
      [] name = N_public -> public(path)
      [] name = N_private -> private(path)
      [] name = N_databases -> databases(path)
      [] name = N_plugins -> plugins(path)
      [] name = N_templates -> templates(path)
      [] name = N_flowstreams -> flowstreams(path)
      [] name = N_modules -> modules(path)
      [] name = N_tmp -> tmp(path)
      [] name = N_temp -> tmp(path)

\* The fragments the resolvers are called with.
Fragments == { <<"a">>, <<"/", "a">>, <<".", ".">> }

\* A completed call: its name, its arguments, what it returned, and the
\* filesystem and the directory map it started from.
Call(op, args, ok, ret) ==
    [op |-> op, args |-> args, ok |-> ok, ret |-> ret,
     fs |-> fs, perf_open |-> perf_open,
     temporary_dirs |-> temporary_dirs, base_dir |-> base_dir]

Idle == called = None /\ routed = None

\* A call of TPath::unlink.
Unlink(path) ==
    /\ Idle
    /\ fs' = unlink(fs, path).fs
    /\ called' = Some(Call("unlink", <<path>>, unlink(fs, path).ok, <<>>))
    /\ UNCHANGED <<perf_open, threads, errVars, csrfVars, pathVars>>

\* A call of TPath::rmdir.
Rmdir(path) ==
    /\ Idle
    /\ fs' = rmdir(fs, path).fs
    /\ called' = Some(Call("rmdir", <<path>>, rmdir(fs, path).ok, <<>>))
    /\ UNCHANGED <<perf_open, threads, errVars, csrfVars, pathVars>>

\* A call of TPath::mkdir.
Mkdir(path) ==
    /\ Idle
    /\ fs' = mkdir(fs, path).fs
    /\ temporary_dirs' = mkdir(fs, path).temporary_dirs
    /\ called' = Some(Call("mkdir", <<path>>, TRUE, <<>>))
    /\ UNCHANGED <<perf_open, threads, errVars, csrfVars, base_dir, routed>>

\* A call of TPath::verify.
Verify(path) ==
    /\ Idle
    /\ fs' = verify(fs, path).fs
    /\ temporary_dirs' = verify(fs, path).temporary_dirs
    /\ called' = Some(Call("verify", <<path>>, TRUE, <<>>))
    /\ UNCHANGED <<perf_open, threads, errVars, csrfVars, base_dir, routed>>

\* A call of TPath::join.
JoinCall(directory_, path) ==
    /\ Idle
    /\ fs' = join(fs, directory_, path).after.fs
    /\ temporary_dirs' = join(fs, directory_, path).after.temporary_dirs
    /\ called' = Some(Call("join", <<directory_, path>>, TRUE, join(fs, directory_, path).ret))
    /\ UNCHANGED <<perf_open, threads, errVars, csrfVars, base_dir, routed>>

\* A call of TPath::exists.
Exists(path) ==
    /\ Idle
    /\ \E dir_len \in DirectoryLens :
          called' = Some(Call("exists", <<path>>, TRUE, exists(fs, path, dir_len)))
    /\ UNCHANGED <<fs, perf_open, threads, errVars, csrfVars, pathVars>>

\* A call of a named resolver (root, logs, ..., tmp, temp).
Resolve(name, path) ==
    /\ Idle
    /\ called' = Some(Call("resolver", <<name, path>>, TRUE, Resolver(name, path)))
    /\ UNCHANGED <<fs, perf_open, threads, errVars, csrfVars, pathVars>>

\* A call of TPath::directory.
DirectoryCall(dir_type, path) ==
    /\ Idle
    /\ called' = Some(Call("directory", <<dir_type, path>>, TRUE, directory(dir_type, path)))
    /\ UNCHANGED <<fs, perf_open, threads, errVars, csrfVars, pathVars>>

\* The caller is done with what the call returned.
CallDone ==
    /\ called # None
    /\ called' = None
    /\ UNCHANGED <<fs, perf_open, threads, errVars, csrfVars, pathVars>>

\* The filesystems a run starts from: every consistent one without content.
EmptyFilesystems ==
    { f \in [FsPaths -> {Absent, Directory, File(<<>>)}] : Consistent(f) }

\* main.rs 14: the application creates the logs directory at start
RestFilesystem ==
    [p \in FsPaths |-> IF p \in {BaseDirectory, LogsDirectory} THEN Directory ELSE Absent]

(***************************************************************************)
(* AuditLogger: DEF::on_audit, src/src/lib.rs 300-314.  The bytes of a     *)
(* file are a sequence of pieces: JSON texts and line terminators.         *)
(***************************************************************************)
\* lib.rs 305: serde_json::to_string(data).unwrap() + "\n"; AuditData has the
\* one field dtcreated, and a JSON text holds no raw newline
Serialized(dtcreated) == << "{\"dtcreated\":" \o NatToStr(dtcreated) \o "}", "\n" >>

\* lib.rs 307-311: OpenOptions::new().create(true).append(true).open(path):
\* opens a file, creates it in an existing directory, fails otherwise
open_append(f, p) ==
    CASE Kind(f, p) = "file" -> Ok(f)
      [] Kind(f, p) = "absent" /\ Kind(f, Parent(p)) = "dir" -> Ok([f EXCEPT ![p] = File(<<>>)])
      [] OTHER -> Err(f)

\* lib.rs 312: write_all on a file opened for appending: the bytes go to the
\* end of the file; written is how many of them the device takes, and the
\* call fails when it does not take them all
write_all(f, p, bytes, written) ==
    [ok |-> written = Len(bytes),
     fs |-> [f EXCEPT ![p] = File(f[p].data \o SubSeq(bytes, 1, written))]]

\* lib.rs 300-314: DEF::on_audit at time t, from counter value open_ and
\* filesystem f; the state it leaves and whether the record was appended
on_auditMutantCountsAppended(name, open_, f, t, written) ==
    LET audit_name == IF name # None THEN Unwrap(name) ELSE AuditDefault
        log_path == logs(Some(LogFileName(audit_name)))
        opened == open_append(f, log_path)
        wrote == IF opened.ok THEN write_all(opened.fs, log_path, Serialized(t), written)
                 ELSE opened
    IN  [panicked |-> FALSE,
         perf_open |-> IF wrote.ok THEN open_ + 1 ELSE open_,
         dtcreated |-> t,
         appended |-> wrote.ok,
         fs |-> wrote.fs]
on_audit(name, open_, f, t, written) ==
    LET audit_name == IF name # None THEN Unwrap(name) ELSE AuditDefault
        log_path == logs(Some(LogFileName(audit_name)))
        opened == open_append(f, log_path)
        wrote == IF opened.ok THEN write_all(opened.fs, log_path, Serialized(t), written)
                 ELSE opened
    IN  [panicked |-> FALSE,
         perf_open |-> open_ + 1,
         dtcreated |-> t,
         appended |-> wrote.ok,
         fs |-> wrote.fs]

\* A call of DEF::on_audit.
OnAudit(name, written) ==
    /\ Idle
    /\ perf_open < MaxAudits
    /\ fs' = on_audit(name, perf_open, fs, now, written).fs
    /\ perf_open' = on_audit(name, perf_open, fs, now, written).perf_open
    /\ called' = Some(Call("on_audit", <<name>>,
                           on_audit(name, perf_open, fs, now, written).appended,
                           on_audit(name, perf_open, fs, now, written)))
    /\ UNCHANGED <<threads, errVars, csrfVars, pathVars>>

\* The filesystems on_audit finds: the one the application sets up, one with
\* earlier records in audit.log, and ones where the logs directory is
\* missing or a log file's name is taken by a directory.
OldRecords == Serialized(0)
\* How many bytes of a record a write may take before it fails.
WriteCounts == 0..Len(OldRecords)
AuditFilesystems ==
    { RestFilesystem,
      [RestFilesystem EXCEPT ![Join(LogsDirectory, LogFileName(AuditDefault))] = File(OldRecords)],
      [RestFilesystem EXCEPT ![LogsDirectory] = Absent],
      [RestFilesystem EXCEPT ![Join(LogsDirectory, LogFileName(<<"x">>))] = Directory] }

(***************************************************************************)
(* Concurrent callers of DEF::on_error and DEF::on_audit.  The code takes  *)
(* no lock: a caller's reads and writes of the shared ring, counters and   *)
(* files are separate steps that other callers' steps come between.        *)
(***************************************************************************)
Threads == 1..NumThreads

\* A caller before its first step.
NewThread(job) == [job |-> job, pc |-> "start", loc |-> 0, calls |-> <<>>, appended |-> FALSE]

\* lib.rs 312: write_all hands the whole buffer to the file in one write
WriteCallsMutantPerPiece(bytes) == [i \in 1..Len(bytes) |-> <<bytes[i]>>]
WriteCalls(bytes) == <<bytes>>

\* The record the concurrent on_error callers report.
ThreadError == MakeErrorInfo([error |-> "e1", name |-> None, url |-> None])
\* A ring filled by RingCap earlier reports.
FullRing == [i \in 1..RingCap |-> ThreadError]

\* lib.rs 304: the log file of the callers, who all pass the same name
ThreadLogPath == logs(Some(LogFileName(AuditDefault)))

At(t, job, pc) == threads[t].job = job /\ threads[t].pc = pc

\* lib.rs 425: errors.push(error_info)
ErrPush(t) ==
    /\ At(t, "on_error", "start")
    /\ errors' = Push(errors, ThreadError)
    /\ threads' = [threads EXCEPT ![t].pc = "pushed"]
    /\ UNCHANGED <<stats_error, epc, ecur, reported, fs, perf_open, called, csrfVars, pathVars>>

\* lib.rs 426-428: if errors.len() > 10 { errors.remove(0); }
ErrEvict(t) ==
    /\ At(t, "on_error", "pushed")
    /\ errors' = IF Overflow(errors) THEN RemoveFirst(errors) ELSE errors
    /\ threads' = [threads EXCEPT ![t].pc = "evicted"]
    /\ UNCHANGED <<stats_error, epc, ecur, reported, fs, perf_open, called, csrfVars, pathVars>>

\* lib.rs 434: f.stats.error += 1, the read
ErrLoad(t) ==
    /\ At(t, "on_error", "evicted")
    /\ threads' = [threads EXCEPT ![t].pc = "loaded", ![t].loc = stats_error]
    /\ UNCHANGED <<errVars, fs, perf_open, called, csrfVars, pathVars>>

\* lib.rs 434: f.stats.error += 1, the write
ErrStore(t) ==
    /\ At(t, "on_error", "loaded")
    /\ stats_error' = threads[t].loc + 1
    /\ threads' = [threads EXCEPT ![t].pc = "done"]
    /\ UNCHANGED <<errors, epc, ecur, reported, fs, perf_open, called, csrfVars, pathVars>>

\* lib.rs 301: f.stats.performance.open += 1, the read
AuditLoad(t) ==
    /\ At(t, "on_audit", "start")
    /\ threads' = [threads EXCEPT ![t].pc = "loaded", ![t].loc = perf_open]
    /\ UNCHANGED <<errVars, fs, perf_open, called, csrfVars, pathVars>>

\* lib.rs 301: f.stats.performance.open += 1, the write
AuditStore(t) ==
    /\ At(t, "on_audit", "loaded")
    /\ perf_open' = threads[t].loc + 1
    /\ threads' = [threads EXCEPT ![t].pc = "counted"]
    /\ UNCHANGED <<errVars, fs, called, csrfVars, pathVars>>

\* lib.rs 302-311: set the date, build the path, serialize, open the file
AuditOpen(t) ==
    /\ At(t, "on_audit", "counted")
    /\ fs' = open_append(fs, ThreadLogPath).fs
    /\ threads' = IF open_append(fs, ThreadLogPath).ok
                  THEN [threads EXCEPT ![t].pc = "opened",
                                       ![t].calls = WriteCalls(Serialized(now))]
                  ELSE [threads EXCEPT ![t].pc = "done"]
    /\ UNCHANGED <<errVars, perf_open, called, csrfVars, pathVars>>

\* lib.rs 312: one write of write_all; the call returns after the last
\* write, or at the first one that fails
AuditWrite(t, written) ==
    /\ At(t, "on_audit", "opened")
    /\ Kind(fs, ThreadLogPath) = "file"
    /\ written \in 0..Len(Head(threads[t].calls))
    /\ fs' = write_all(fs, ThreadLogPath, Head(threads[t].calls), written).fs
    /\ threads' =
          IF ~write_all(fs, ThreadLogPath, Head(threads[t].calls), written).ok
          THEN [threads EXCEPT ![t].pc = "done", ![t].calls = <<>>]
          ELSE IF Tail(threads[t].calls) = <<>>
          THEN [threads EXCEPT ![t].pc = "done", ![t].calls = <<>>, ![t].appended = TRUE]
          ELSE [threads EXCEPT ![t].calls = Tail(threads[t].calls)]
    /\ UNCHANGED <<errVars, perf_open, called, csrfVars, pathVars>>

\* Framework::default, or a framework whose ring earlier reports filled; the
\* logs directory present or missing; every assignment of jobs to callers.
InitConc ==
    /\ errors \in {<<>>, FullRing}
    /\ stats_error = Len(errors)
    /\ reported = errors
    /\ epc = "idle"
    /\ ecur = None
    /\ fs \in { RestFilesystem, [RestFilesystem EXCEPT ![LogsDirectory] = Absent] }
    /\ perf_open = 0
    /\ called = None
    /\ threads \in { [t \in Threads |-> NewThread(job[t])] : job \in [Threads -> {"on_error", "on_audit"}] }

(***************************************************************************)
(* The states the other components rest in while one is exercised.         *)
(***************************************************************************)
RestError == InitError
RestCsrf ==
    /\ now = 1
    /\ secret_csrf = None
    /\ csrfexpiration = None
    /\ issued = None
    /\ checked = None
RestPath ==
    /\ base_dir = BaseDirectory
    /\ temporary_dirs = NewTemporaryDirs(BaseDirectory)
    /\ routed = None
RestIo ==
    /\ fs = RestFilesystem
    /\ perf_open = 0
    /\ called = None
    /\ threads = <<>>

(***************************************************************************)
(* Specifications.                                                         *)
(***************************************************************************)
NextError ==
    \/ \E a \in ErrorArgs : ReportPush(a)
    \/ ReportEvict
    \/ ReportCount

InitErrorSpec == InitError /\ RestCsrf /\ RestPath /\ RestIo
SpecError == InitErrorSpec /\ [][NextError]_vars

NextCsrf ==
    \/ Tick
    \/ \E ctrl \in CreateRequests : OnCsrfCreate(ctrl)
    \/ \E ctrl \in Requests : OnCsrfCheck(ctrl)
    \/ CheckDone

InitCsrfSpec == RestError /\ InitCsrf /\ RestPath /\ RestIo
SpecCsrf == InitCsrfSpec /\ [][NextCsrf]_vars

NextPath ==
    \/ \E path \in Paths, dir \in DirectoryNames : Route(path, dir)
    \/ RouteDone

InitPathSpec == RestError /\ RestCsrf /\ InitPath /\ RestIo
SpecPath == InitPathSpec /\ [][NextPath]_vars

InitFs ==
    /\ fs \in EmptyFilesystems
    /\ perf_open = 0
    /\ called = None
    /\ threads = <<>>

NextFs ==
    \/ \E path \in FsPaths : Unlink(path)
    \/ \E path \in FsPaths : Rmdir(path)
    \/ \E path \in FsPaths : Mkdir(path)
    \/ \E path \in FsPaths : Verify(path)
    \/ \E directory_ \in FsPaths, path \in Fragments : JoinCall(directory_, path)
    \/ \E path \in FsPaths : Exists(path)
    \/ \E name \in ResolverNames, path \in Opt(Fragments) : Resolve(name, path)
    \/ \E dir_type \in DirectoryNames, path \in Opt(Fragments) : DirectoryCall(dir_type, path)
    \/ \E path \in Paths, dir \in DirectoryNames : Route(path, dir)
    \/ CallDone
    \/ RouteDone

InitFsSpec == RestError /\ RestCsrf /\ RestPath /\ InitFs
SpecFs == InitFsSpec /\ [][NextFs]_vars

InitAudit ==
    /\ fs \in AuditFilesystems
    /\ perf_open = 0
    /\ called = None
    /\ threads = <<>>

NextAudit ==
    \/ Tick
    \/ \E name \in Opt(AuditNames), written \in WriteCounts : OnAudit(name, written)
    \/ CallDone

InitAuditSpec == RestError /\ RestCsrf /\ RestPath /\ InitAudit
SpecAudit == InitAuditSpec /\ [][NextAudit]_vars

NextConc ==
    \/ \E t \in Threads : ErrPush(t)
    \/ \E t \in Threads : ErrEvict(t)
    \/ \E t \in Threads : ErrLoad(t)
    \/ \E t \in Threads : ErrStore(t)
    \/ \E t \in Threads : AuditLoad(t)
    \/ \E t \in Threads : AuditStore(t)
    \/ \E t \in Threads : AuditOpen(t)
    \/ \E t \in Threads, written \in WriteCounts : AuditWrite(t, written)

InitConcSpec == InitConc /\ RestCsrf /\ RestPath
SpecConc == InitConcSpec /\ [][NextConc]_vars

(***************************************************************************)
(* Properties.                                                             *)
(***************************************************************************)
Min(a, b) == IF a < b THEN a ELSE b
LastN(seq, n) == SubSeq(seq, Len(seq) - n + 1, Len(seq))

\* C1: after n completed on_error calls from an empty ring, the ring holds
\* exactly the last min(n, 10) reported errors in insertion order and
\* stats.error equals n (one increment per report, also when the ring is full).
C1_RingHoldsLastReports ==
    epc = "idle" =>
        /\ errors = LastN(reported, Min(Len(reported), RingCap))
        /\ stats_error = Len(reported)

\* C1 witness: eleven reports are complete, the ring holds ten and the first
\* report is gone.
C1_Witness ==
    /\ epc = "idle"
    /\ Len(reported) = RingCap + 1
    /\ stats_error = RingCap + 1
    /\ Len(errors) = RingCap
    /\ errors[1] = reported[2]
    /\ reported[1] # reported[2]

\* C2 as stated: the ring never holds more than 10 records, inside a report
\* included (the oldest is removed before the new record is appended).
C2_RingNeverExceedsCap == Len(errors) <= RingCap

\* C2 amended: the ring holds at most 10 records before and after every
\* report and at most 11 at any time; inside a report the new record is
\* appended first (the ring may then hold 11) and only then the oldest one
\* (index 0) is removed.
C2_RingBoundedBetweenReports ==
    /\ Len(errors) <= RingCap + 1
    /\ epc # "pushed" => Len(errors) <= RingCap
    /\ epc = "pushed" =>
          /\ errors # <<>>
          /\ errors[Len(errors)] = Unwrap(ecur)
          /\ errors = LastN(reported, Min(Len(reported), RingCap + 1))
    /\ epc = "evicted" => errors = LastN(reported, Min(Len(reported), RingCap))

\* C2 witness: inside a report the ring holds 11 records.
C2_Witness == epc = "pushed" /\ Len(errors) = RingCap + 1

\* The request and the token of the last on_csrf_check call.
CheckedCtrl == Unwrap(checked).ctrl
CheckedToken == Unwrap(TokenOf(CheckedCtrl))
CheckedRet == Unwrap(checked).ret

\* The request whose token was issued last has the fingerprint of the checked one.
SameFingerprint ==
    /\ Unwrap(issued).ctrl.ip = CheckedCtrl.ip
    /\ Unwrap(issued).ctrl.ua = CheckedCtrl.ua

\* C3: a token issued by on_csrf_create is accepted by on_csrf_check for the
\* same fingerprint and secret at every time up to issuance time + ttl and
\* rejected at every later time.
C3_IssuedTokenValidUntilExpiry ==
    ( /\ checked # None /\ issued # None
      /\ secret_csrf # None /\ csrfexpiration # None
      /\ TokenOf(CheckedCtrl) = Some(Unwrap(issued).token)
      /\ SameFingerprint )
    => CheckedRet = Ret(Unwrap(checked).at <= Unwrap(issued).at + Unwrap(csrfexpiration))

\* The payload the checked token decrypts and parses to, or None.
CheckedData ==
    IF secret_csrf = None \/ TokenOf(CheckedCtrl) = None THEN None
    ELSE IF decrypt(CheckedToken, Unwrap(secret_csrf)) = None THEN None
    ELSE FromJsonVecString(Unwrap(decrypt(CheckedToken, Unwrap(secret_csrf))))

\* C4: with a secret configured and a token that decrypts and parses to at
\* least 3 fields, on_csrf_check returns true iff stored ip = request ip,
\* stored hash = hash of the request's user-agent and stored expiry >= now.
C4_ValidIffThreeChecks ==
    ( /\ checked # None
      /\ CheckedData # None
      /\ Len(Unwrap(CheckedData)) >= 3 )
    => LET data == Unwrap(CheckedData)
           expiry == ParseI64(data[3])
       IN  CheckedRet =
             Ret( /\ data[1] = CheckedCtrl.ip
                  /\ data[2] = hash_user_agent(UserAgentOf(CheckedCtrl))
                  /\ expiry # None
                  /\ Unwrap(expiry) >= Unwrap(checked).at )

\* C4 witness: a token checked at exactly its expiry instant is accepted.
C4_Witness ==
    /\ checked # None
    /\ CheckedData # None
    /\ Len(Unwrap(CheckedData)) >= 3
    /\ ParseI64(Unwrap(CheckedData)[3]) = Some(Unwrap(checked).at)
    /\ CheckedRet = Ret(TRUE)

\* C5: with a secret configured, on_csrf_check returns false without
\* panicking for every token of at most 10 characters, every token that fails
\* decryption (an issued token with a byte altered included), every plaintext
\* that is not a list of strings and every list of fewer than 3 fields.
C5_MalformedTokenRejected ==
    ( /\ checked # None
      /\ secret_csrf # None
      /\ TokenOf(CheckedCtrl) # None
      /\ \/ TokenLen(CheckedToken) <= MinTokenLen
         \/ CheckedData = None
         \/ Len(Unwrap(CheckedData)) < 3 )
    => CheckedRet = Ret(FALSE)

\* C5 witness: a token of more than 10 characters that decrypts to a list of
\* two strings has been checked and rejected.
C5_Witness ==
    /\ checked # None
    /\ CheckedData # None
    /\ Len(Unwrap(CheckedData)) = 2
    /\ TokenLen(CheckedToken) > MinTokenLen
    /\ CheckedRet = Ret(FALSE)

\* C6: with no secret configured, on_csrf_check returns true for every
\* request, whatever its token.
C6_NoSecretAlwaysPasses ==
    (checked # None /\ secret_csrf = None) => CheckedRet = Ret(TRUE)

\* C6 witness: with no secret, a request carrying a short garbage token has
\* passed.
C6_Witness ==
    /\ checked # None
    /\ secret_csrf = None
    /\ TokenOf(CheckedCtrl) = Some(RawToken("0123456789"))
    /\ CheckedRet = Ret(TRUE)

RoutedPath == Unwrap(routed).path
RoutedDir == Unwrap(routed).dir
RoutedRet == Unwrap(routed).ret

\* C8: route("_<plugin>/<dir>/<rest>", <dir>) with <dir> other than "root"
\* returns <plugins-dir>/<plugin>/<dir>/<rest>.
C8_PluginPathResolved ==
    \A pl \in PluginNames, r \in Rests :
        ( /\ routed # None
          /\ RoutedDir \notin {N_root, <<>>}
          /\ RoutedPath = PluginPath(pl, RoutedDir, r) )
        => RoutedRet = Returned(Join(base_dir, N_plugins) \o <<"/">> \o pl
                                \o <<"/">> \o RoutedDir \o <<"/">> \o r)

\* C9: for a path that starts with '~', route returns exactly the rest of
\* the path, whatever the directory name and the base directory.
C9_TildeReturnsRemainder ==
    (routed # None /\ RoutedPath # <<>> /\ Head(RoutedPath) = "~")
    => RoutedRet = Returned(Tail(RoutedPath))

\* C9 witness: route("~etc/passwd", "public") returned "etc/passwd".
C9_Witness ==
    /\ routed # None
    /\ RoutedPath = EtcPasswd
    /\ RoutedDir = N_public
    /\ RoutedRet = Returned(<<"e", "t", "c", "/", "p", "a", "s", "s", "w", "d">>)

\* A path the plugin rule applies to: it starts with '_' and holds a '/'.
HasPluginPrefix(path) ==
    /\ path # <<>>
    /\ Head(path) = "_"
    /\ \E i \in 2..Len(path) : path[i] = "/"

\* C10: for a path with neither a '~' nor a plugin prefix, route returns the
\* directory of a registered kind joined with the path, and the bare base
\* directory for an unregistered directory name.
C10_NamedDirectoryDispatch ==
    ( /\ routed # None
      /\ ~(RoutedPath # <<>> /\ Head(RoutedPath) = "~")
      /\ ~HasPluginPrefix(RoutedPath) )
    => RoutedRet = Returned(
           IF RoutedDir \in RegisteredNames
           THEN Join(Join(base_dir, RoutedDir), RoutedPath)
           ELSE IF RoutedDir = N_root THEN Join(base_dir, RoutedPath)
           ELSE base_dir)

\* C10 witness: an unregistered directory name with a non-empty path gave the
\* base directory.
C10_Witness ==
    /\ routed # None
    /\ RoutedDir = N_unregistered
    /\ RoutedPath = <<"a", "/", "a">>
    /\ RoutedRet = Returned(base_dir)

\* The components of a path: the strings between its '/' characters.
RECURSIVE Components(_)
Components(p) ==
    IF Find(p, "/") = None THEN <<p>>
    ELSE <<SliceTo(p, Unwrap(Find(p, "/")))>>
         \o Components(SliceFrom(p, Unwrap(Find(p, "/")) + 1))

\* The location a list of components leads to from a starting location:
\* "" and "." stay, ".." goes to the parent; [up] counts the steps taken
\* above the starting location.
RECURSIVE Walk(_, _)
Walk(loc, comps) ==
    IF comps = <<>> THEN loc
    ELSE LET c == Head(comps) IN
         Walk(IF c = <<>> \/ c = <<".">> THEN loc
              ELSE IF c = <<".", ".">>
                   THEN IF loc.names # <<>>
                        THEN [loc EXCEPT !.names = SubSeq(loc.names, 1, Len(loc.names) - 1)]
                        ELSE IF loc.abs THEN loc ELSE [loc EXCEPT !.up = loc.up + 1]
              ELSE [loc EXCEPT !.names = Append(loc.names, c)],
              Tail(comps))

\* The location a path denotes: absolute or relative to the working
\* directory, the steps above the working directory, the names below.
Location(p) == Walk([abs |-> IsAbsolute(p), up |-> 0, names |-> <<>>], Components(p))

\* A path denotes a location inside (or equal to) a directory.
Inside(p, dir) ==
    LET l == Location(p)
        d == Location(dir)
    IN  /\ l.abs = d.abs
        /\ l.up = d.up
        /\ Len(l.names) >= Len(d.names)
        /\ SubSeq(l.names, 1, Len(d.names)) = d.names

\* C18: route is total: it returns a path and never panics, also for a
\* plugin-scoped path whose remainder after the first '/' is shorter than
\* the 2-character skip.
C18_RouteNeverPanics == routed # None => ~RoutedRet.panicked

\* C19: for every path that does not start with '~' and every directory
\* name, the path route returns denotes a location inside the base directory.
C19_RouteStaysInsideBase ==
    ( /\ routed # None
      /\ ~(RoutedPath # <<>> /\ Head(RoutedPath) = "~")
      /\ ~RoutedRet.panicked )
    => Inside(RoutedRet.path, base_dir)

\* The request with only the given token, carried in the header.
WithOnlyHeader(ctrl, token) == [ctrl EXCEPT !.header = token, !.query = None]

\* C20: with a secret configured, on_csrf_check takes the token from the
\* x-csrf-token header when it is present and from the csrf query parameter
\* only when the header is absent; a request with neither is rejected, and an
\* invalid header token is rejected even beside a valid query token.
C20_HeaderTokenBeforeQuery ==
    (checked # None /\ secret_csrf # None) =>
        /\ CheckedCtrl.header # None =>
              CheckedRet = CheckWithSecret(WithOnlyHeader(CheckedCtrl, CheckedCtrl.header),
                                           Unwrap(secret_csrf), Unwrap(checked).at)
        /\ CheckedCtrl.header = None =>
              CheckedRet = CheckWithSecret(WithOnlyHeader(CheckedCtrl, CheckedCtrl.query),
                                           Unwrap(secret_csrf), Unwrap(checked).at)
        /\ (CheckedCtrl.header = None /\ CheckedCtrl.query = None) => CheckedRet = Ret(FALSE)

\* C20 witness: a request with an invalid header token and a query token
\* that alone would pass has been rejected.
C20_Witness ==
    /\ checked # None
    /\ secret_csrf # None
    /\ CheckedCtrl.header = Some(RawToken("0123456789a"))
    /\ CheckedCtrl.query # None
    /\ CheckWithSecret(WithOnlyHeader(CheckedCtrl, CheckedCtrl.query),
                       Unwrap(secret_csrf), Unwrap(checked).at) = Ret(TRUE)
    /\ CheckedRet = Ret(FALSE)

CalledOp == Unwrap(called).op
CalledPath == Unwrap(called).args[1]
CalledOk == Unwrap(called).ok
CalledBefore == Unwrap(called).fs

\* C11: unlink and rmdir are idempotent deletes: called on a path that does
\* not exist (as on the second call after a successful first) they return
\* success, not an error, and leave the filesystem unchanged.
C11_DeleteOfMissingSucceeds ==
    ( /\ called # None
      /\ CalledOp \in {"unlink", "rmdir"}
      /\ Kind(CalledBefore, CalledPath) = "absent" )
    => (CalledOk /\ fs = CalledBefore)

\* C16: ensure_dir (mkdir, verify) is idempotent: after a call, a second call
\* on the same path changes nothing and leaves the directory present; the
\* call never errors; on an existing directory it changes nothing.
C16_EnsureDirIdempotent ==
    (called # None /\ CalledOp \in {"mkdir", "verify"}) =>
        /\ CalledOk
        /\ mkdir(fs, CalledPath).fs = fs
        /\ Kind(mkdir(fs, CalledPath).fs, CalledPath) = "dir"
        /\ Kind(CalledBefore, CalledPath) = "dir" => fs = CalledBefore

\* C17: the mapping from directory names to paths is fixed at construction:
\* no step of a TPath operation (the named resolvers, directory, route, join,
\* verify, mkdir, exists, unlink, rmdir) changes base_dir or the directory
\* map, and every resolver and directory give for the same name and fragment
\* the same path after the step as before it.
C17_MapFixedAtConstruction ==
    [][ /\ base_dir' = base_dir
        /\ temporary_dirs' = temporary_dirs
        /\ \A path \in Opt(Fragments) :
              /\ \A name \in ResolverNames : Resolver(name, path)' = Resolver(name, path)
              /\ \A dir_type \in DirectoryNames :
                    directory(dir_type, path)' = directory(dir_type, path) ]_vars

\* C17 witness: mkdir has created a directory, and the map is the one
\* TPath::new built.
C17_Witness ==
    /\ called # None
    /\ CalledOp = "mkdir"
    /\ Kind(CalledBefore, CalledPath) = "absent"
    /\ Kind(fs, CalledPath) = "dir"
    /\ temporary_dirs = NewTemporaryDirs(base_dir)

CalledRet == Unwrap(called).ret
IsPrefix(a, b) == Len(a) <= Len(b) /\ SubSeq(b, 1, Len(a)) = a

\* "<logs-dir>/<name>.log" for the name of the completed on_audit call.
CalledLogFile ==
    LogsDirectory \o <<"/">>
    \o LogFileName(IF CalledPath # None THEN Unwrap(CalledPath) ELSE AuditDefault)

\* The bytes are one newline-terminated line.
IsOneLine(bytes) == Len(bytes) = 2 /\ bytes[1] # "\n" /\ bytes[2] = "\n"

\* C12: audit log files are append-only: after an on_audit call every file
\* still starts with its previous content, and a successful call has
\* appended exactly one newline-terminated line to <logs-dir>/<name>.log
\* (name "audit" when none is given), creating that file if it was absent,
\* and has touched no other file.
C12_AppendsOneLineToNamedLog ==
    (called # None /\ CalledOp = "on_audit") =>
        /\ \A p \in FsPaths : IsPrefix(CalledBefore[p].data, fs[p].data)
        /\ CalledOk =>
              \A p \in FsPaths :
                  IF Location(p) = Location(CalledLogFile)
                  THEN /\ fs[p].kind = "file"
                       /\ IsOneLine(SubSeq(fs[p].data, Len(CalledBefore[p].data) + 1,
                                           Len(fs[p].data)))
                  ELSE fs[p] = CalledBefore[p]

\* C15: when the record could not be appended, on_audit still returns
\* normally, without a panic, and the "open" counter has grown by exactly 1.
C15_FailedAppendStillCounts ==
    (called # None /\ CalledOp = "on_audit" /\ ~CalledOk) =>
        /\ ~CalledRet.panicked
        /\ perf_open = Unwrap(called).perf_open + 1

\* C15 witness: an on_audit call whose append failed has returned and the
\* counter has grown.
C15_Witness ==
    /\ called # None
    /\ CalledOp = "on_audit"
    /\ ~CalledOk
    /\ ~CalledRet.panicked
    /\ perf_open = Unwrap(called).perf_open + 1

AllDone == \A t \in Threads : threads[t].pc = "done"
ErrorCallers == { t \in Threads : threads[t].job = "on_error" }
AuditCallers == { t \in Threads : threads[t].job = "on_audit" }
AuditLog == fs[ThreadLogPath]

\* The bytes are n complete lines: n texts, each followed by its terminator.
IsLines(bytes, n) ==
    /\ Len(bytes) = 2 * n
    /\ \A i \in 1..n : bytes[2 * i - 1] # "\n" /\ bytes[2 * i] = "\n"

C14_MutationsAtomic ==
    /\ Len(errors) <= RingCap
    /\ AllDone =>
          /\ stats_error = Len(reported) + Cardinality(ErrorCallers)
          /\ perf_open = Cardinality(AuditCallers)

====
